---- MODULE Spec2Model ----
(***************************************************************************)
(* Mortgage Outcomes calculator (src/app.py).                              *)
(*                                                                         *)
(* The script's floats are modelled as exact rationals <<n, d>> in lowest  *)
(* terms with d > 0: every amount the model enters is a small integer or a *)
(* dyadic fraction, which a double holds exactly, and the arithmetic is    *)
(* the real-number arithmetic the float operations approximate.  NaN,      *)
(* infinities and the sign of a float zero are not represented.            *)
(***************************************************************************)
EXTENDS Integers, Sequences, FiniteSets, TLC

(* ---------------- float arithmetic, as exact rationals ---------------- *)

Abs(i) == IF i < 0 THEN 0 - i ELSE i

RECURSIVE GCD(_, _)
GCD(a, b) == IF b = 0 THEN a ELSE GCD(b, a % b)

\* the float holding n/d
Norm(n, d) ==
    LET g == GCD(Abs(n), Abs(d))
        s == IF d < 0 THEN 0 - 1 ELSE 1
    IN  <<s * (n \div g), s * (d \div g)>>

Rat(i) == <<i, 1>>

Zero == Rat(0)

One == Rat(1)

\* x + y
RAdd(x, y) ==
    LET g == GCD(x[2], y[2])
        l == (x[2] \div g) * y[2]
    IN  Norm(x[1] * (l \div x[2]) + y[1] * (l \div y[2]), l)

\* -x
RNeg(x) == <<0 - x[1], x[2]>>

\* x - y
RSub(x, y) == RAdd(x, RNeg(y))

\* x * y
RMul(x, y) ==
    LET g1 == GCD(Abs(x[1]), y[2])
        g2 == GCD(Abs(y[1]), x[2])
    IN  Norm((x[1] \div g1) * (y[1] \div g2), (x[2] \div g2) * (y[2] \div g1))

\* what a division by zero leaves in place of a number
ZeroDivisionError == <<0, 0>>

\* x / y
RDiv(x, y) == IF y = Zero THEN ZeroDivisionError ELSE RMul(x, Norm(y[2], y[1]))

\* x < y
RLt(x, y) == RSub(x, y)[1] < 0

\* x <= y
RLe(x, y) == RSub(x, y)[1] <= 0

RECURSIVE IPow(_, _)
IPow(i, k) == IF k = 0 THEN 1 ELSE i * IPow(i, k - 1)

\* x ** k for an int k >= 0
RPow(x, k) == <<IPow(x[1], k), IPow(x[2], k)>>

\* max(x, y)
RMax(x, y) == IF RLt(x, y) THEN y ELSE x

\* the integer nearest to x >= 0, a tie going to the even neighbour
RoundHalfEvenNat(x) ==
    LET f == x[1] \div x[2]
        twice == 2 * (x[1] - f * x[2])
    IN  IF twice < x[2] THEN f
        ELSE IF twice > x[2] THEN f + 1
        ELSE IF f % 2 = 0 THEN f ELSE f + 1

\* the integer nearest to x, a tie going to the even neighbour
RoundHalfEven(x) ==
    IF x[1] < 0 THEN 0 - RoundHalfEvenNat(RNeg(x)) ELSE RoundHalfEvenNat(x)

\* round(x) for digits = 0 (an int), round(x, digits) otherwise
Round(x, digits) ==
    LET scale == RPow(Rat(10), digits)
    IN  Norm(RoundHalfEven(RMul(x, scale)), scale[1])

(* ----------------------------- core math ------------------------------ *)

MonthsPerYear == 12

\* monthly_payment dividing by the years, not the months, at a zero rate
monthly_payment_per_year(principal, apr, years) ==
    LET r == RDiv(apr, Rat(MonthsPerYear))
        n == years * MonthsPerYear
    IN  IF r = Zero
        THEN RDiv(principal, Rat(years))
        ELSE RDiv(RMul(principal, RMul(r, RPow(RAdd(One, r), n))),
                  RSub(RPow(RAdd(One, r), n), One))

monthly_payment(principal, apr, years) ==
    LET r == RDiv(apr, Rat(MonthsPerYear))
        n == years * MonthsPerYear
    IN  IF r = Zero
        THEN RDiv(principal, Rat(n))
        ELSE RDiv(RMul(principal, RMul(r, RPow(RAdd(One, r), n))),
                  RSub(RPow(RAdd(One, r), n), One))

\* remaining_balance counting one payment a year
remaining_balance_yearly(principal, apr, years_total, years_paid) ==
    LET r == RDiv(apr, Rat(MonthsPerYear))
        n_total == years_total * MonthsPerYear
        n_paid == years_paid
    IN  IF r = Zero
        THEN RMul(principal, RSub(One, RDiv(Rat(n_paid), Rat(n_total))))
        ELSE RDiv(RMul(principal,
                       RSub(RPow(RAdd(One, r), n_total), RPow(RAdd(One, r), n_paid))),
                  RSub(RPow(RAdd(One, r), n_total), One))

\* remaining_balance floored at 0
remaining_balance_clamped(principal, apr, years_total, years_paid) ==
    LET r == RDiv(apr, Rat(MonthsPerYear))
        n_total == years_total * MonthsPerYear
        n_paid == years_paid * MonthsPerYear
    IN  RMax(Zero,
             IF r = Zero
             THEN RMul(principal, RSub(One, RDiv(Rat(n_paid), Rat(n_total))))
             ELSE RDiv(RMul(principal,
                            RSub(RPow(RAdd(One, r), n_total),
                                 RPow(RAdd(One, r), n_paid))),
                       RSub(RPow(RAdd(One, r), n_total), One)))

remaining_balance(principal, apr, years_total, years_paid) ==
    LET r == RDiv(apr, Rat(MonthsPerYear))
        n_total == years_total * MonthsPerYear
        n_paid == years_paid * MonthsPerYear
    IN  IF r = Zero
        THEN RMul(principal, RSub(One, RDiv(Rat(n_paid), Rat(n_total))))
        ELSE RDiv(RMul(principal,
                       RSub(RPow(RAdd(One, r), n_total), RPow(RAdd(One, r), n_paid))),
                  RSub(RPow(RAdd(One, r), n_total), One))

\* equity_above_down_payment charging the service of one year only
equity_one_service_charge(purchase_price, down_payment_amount, apr, term_years, sale_price, year, fees_pct, fees_flat, service_charge_per_year) ==
    LET loan == RSub(purchase_price, down_payment_amount)
        emi == monthly_payment(loan, apr, term_years)
        rem == remaining_balance(loan, apr, term_years, year)
        net_before_costs == RSub(sale_price, rem)
        total_fees == RAdd(RMul(sale_price, fees_pct), fees_flat)
        total_service == service_charge_per_year
        net_after_costs == RSub(RSub(net_before_costs, total_fees), total_service)
        above_dp == RSub(net_after_costs, down_payment_amount)
    IN  [emi |-> emi, rem |-> rem, net_after_costs |-> net_after_costs,
         above_dp |-> above_dp]

\* equity_above_down_payment with the operands of net_before_costs swapped
equity_balance_minus_sale(purchase_price, down_payment_amount, apr, term_years, sale_price, year, fees_pct, fees_flat, service_charge_per_year) ==
    LET loan == RSub(purchase_price, down_payment_amount)
        emi == monthly_payment(loan, apr, term_years)
        rem == remaining_balance(loan, apr, term_years, year)
        net_before_costs == RSub(rem, sale_price)
        total_fees == RAdd(RMul(sale_price, fees_pct), fees_flat)
        total_service == RMul(service_charge_per_year, Rat(year))
        net_after_costs == RSub(RSub(net_before_costs, total_fees), total_service)
        above_dp == RSub(net_after_costs, down_payment_amount)
    IN  [emi |-> emi, rem |-> rem, net_after_costs |-> net_after_costs,
         above_dp |-> above_dp]

\* returns [emi, rem, net_after_costs, above_dp]
equity_above_down_payment(purchase_price, down_payment_amount, apr, term_years, sale_price, year, fees_pct, fees_flat, service_charge_per_year) ==
    LET loan == RSub(purchase_price, down_payment_amount)
        emi == monthly_payment(loan, apr, term_years)
        rem == remaining_balance(loan, apr, term_years, year)
        net_before_costs == RSub(sale_price, rem)
        total_fees == RAdd(RMul(sale_price, fees_pct), fees_flat)
        total_service == RMul(service_charge_per_year, Rat(year))
        net_after_costs == RSub(RSub(net_before_costs, total_fees), total_service)
        above_dp == RSub(net_after_costs, down_payment_amount)
    IN  [emi |-> emi, rem |-> rem, net_after_costs |-> net_after_costs,
         above_dp |-> above_dp]

(* ------------------------------- UI ----------------------------------- *)

VARIABLES
    form,            \* the values the widgets hold for this run of the script
    pc,              \* the statement the script is at
    down_payment, dp_pct, apr, resale_prices, fees_pct,
    loan_amount, emi_preview,
    years, yi, si, row, table_rows, df,
    page,            \* the elements rendered so far, in order
    grid,            \* the calls of equity_above_down_payment made by the loop
    call             \* a core function called on its own (no UI)

uiVars == <<form, pc, down_payment, dp_pct, apr, resale_prices, fees_pct,
            loan_amount, emi_preview, years, yi, si, row, table_rows, df,
            page, grid>>

vars == <<uiVars, call>>

MaxTokens == 2

MaxFormTerm == 2

MaxHorizon == 2

\* st.number_input / st.slider: the widget holds no value outside [lo, hi]
number_input(lo, hi, entered) == {v \in entered : RLe(lo, v) /\ RLe(v, hi)}

\* a number_input without max_value
number_input_min(lo, entered) == {v \in entered : RLe(lo, v)}

IntRats(S) == {Rat(i) : i \in S}

\* the pieces of the text between commas: nothing but blanks, text that is
\* no number, or the text of a number
Tokens ==
    {[kind |-> "blank", val |-> Zero], [kind |-> "junk", val |-> Zero]}
        \cup [kind : {"num"}, val : {Rat(1), Norm(5, 4), Rat(2)}]

TokenLists == UNION {[1..n -> Tokens] : n \in 1..MaxTokens}

\* the only rate of the form's range for which (1 + apr/12) ** 12 fits the
\* model's integers is 0; the direct calls below cover the other branch
Forms ==
    [dec : {v[1] : v \in number_input(Rat(0), Rat(2), IntRats({0 - 1, 0, 2, 3}))},
     purchase_price : number_input_min(Zero, IntRats({0 - 1, 0, 2})),
     dp_mode : {"Percent", "Amount"},
     dp_percent : number_input(Zero, Rat(100), IntRats({50, 100, 150})),
     dp_amount : number_input_min(Zero, IntRats({0 - 1, 1, 3})),
     apr_percent : number_input(Zero, Rat(50), IntRats({0 - 1, 0, 600})),
     term_years : {v[1] : v \in number_input(Rat(1), Rat(40), IntRats(0..MaxFormTerm))},
     resale_prices_str : TokenLists,
     fees_percent : number_input(Zero, Rat(20), IntRats({0, 4, 25})),
     fees_flat : number_input_min(Zero, IntRats({0 - 1, 1})),
     service_charge_per_year : number_input_min(Zero, IntRats({0 - 1, 0, 1})),
     years_max : {v[1] : v \in number_input(Rat(1), Rat(30), IntRats(0..MaxHorizon))}]

\* only the widget of the chosen down payment mode is on the page; the other
\* one is held at one fixed value
FormShown(f) ==
    IF f.dp_mode = "Percent" THEN f.dp_amount = Rat(1) ELSE f.dp_percent = Rat(50)

\* ParsePrices taking text that is no number for 0.0
RECURSIVE ParsePrices_JunkAsZero(_)
ParsePrices_JunkAsZero(tokens) ==
    IF tokens = <<>> THEN <<>>
    ELSE LET x == Head(tokens)
             rest == ParsePrices_JunkAsZero(Tail(tokens))
         IN  IF x.kind = "blank" THEN rest
             ELSE IF x.kind = "num" THEN <<x.val>> \o rest
             ELSE <<Zero>> \o rest

\* the loop over resale_prices_str.split(",")
RECURSIVE ParsePrices(_)
ParsePrices(tokens) ==
    IF tokens = <<>> THEN <<>>
    ELSE LET x == Head(tokens)
             rest == ParsePrices(Tail(tokens))
         IN  IF x.kind = "blank" THEN rest
             ELSE IF x.kind = "num" THEN <<x.val>> \o rest
             ELSE rest

\* f"{x:,.0f}": the sign and the digits of x rounded half-even to a whole
Fmt0(x) == [neg |-> x[1] < 0, mag |-> RoundHalfEvenNat(<<Abs(x[1]), x[2]>>)]

\* the key f"Sale {sp:,.0f}"
SaleKey(sp) == [name |-> "Sale", text |-> Fmt0(sp)]

YearKey == [name |-> "Year", text |-> Fmt0(Zero)]

\* d[k] = v on a dict held as the sequence of its items in insertion order
DictSet(d, k, v) ==
    IF \E j \in 1..Len(d) : d[j].key = k
    THEN [j \in 1..Len(d) |-> IF d[j].key = k THEN [key |-> k, value |-> v] ELSE d[j]]
    ELSE Append(d, [key |-> k, value |-> v])

DictKeys(d) == [j \in 1..Len(d) |-> d[j].key]

DictGet(d, k) == (CHOOSE item \in {d[j] : j \in 1..Len(d)} : item.key = k).value

\* list(range(years_max))
YearList_FromZero(years_max) == [k \in 1..years_max |-> k - 1]

\* list(range(1, years_max + 1))
YearList(years_max) == [k \in 1..years_max |-> k]

RECURSIVE UnionKeys(_, _)
UnionKeys(rows, cols) ==
    IF rows = <<>> THEN cols
    ELSE LET ks == DictKeys(Head(rows))
             fresh == SelectSeq(ks, LAMBDA k : \A j \in 1..Len(cols) : cols[j] # k)
         IN  UnionKeys(Tail(rows), cols \o fresh)

\* pd.DataFrame(list of dicts): the columns are the keys in order of first
\* appearance, one record per dict
DataFrame(rows) ==
    LET columns == UnionKeys(rows, <<>>)
    IN  [columns |-> columns,
         data |-> [r \in 1..Len(rows) |->
                     [c \in 1..Len(columns) |-> DictGet(rows[r], columns[c])]]]

NoFrame == [columns |-> <<>>, data |-> <<>>]

Element(el, label, x) == [el |-> el, label |-> label, shown |-> Fmt0(x)]

NoCall == [args |-> [fn |-> "none"], returned |-> FALSE, result |-> Zero]

Init ==
    /\ form \in Forms
    /\ FormShown(form)
    /\ pc = "sidebar"
    /\ down_payment = Zero /\ dp_pct = Zero /\ apr = Zero
    /\ resale_prices = <<>> /\ fees_pct = Zero
    /\ loan_amount = Zero /\ emi_preview = Zero
    /\ years = <<>> /\ yi = 0 /\ si = 0
    /\ row = <<>> /\ table_rows = <<>> /\ df = NoFrame
    /\ page = <<>> /\ grid = <<>>
    /\ call = NoCall

\* lines 56-97: the sidebar widgets and what the script derives from them
Sidebar ==
    /\ pc = "sidebar"
    /\ IF form.dp_mode = "Percent"
       THEN /\ dp_pct' = RDiv(form.dp_percent, Rat(100))
            /\ down_payment' = RMul(form.purchase_price, dp_pct')
       ELSE /\ down_payment' = form.dp_amount
            /\ dp_pct' = IF form.purchase_price # Zero
                         THEN RDiv(down_payment', form.purchase_price)
                         ELSE Zero
    /\ apr' = RDiv(form.apr_percent, Rat(100))
    /\ resale_prices' = ParsePrices(form.resale_prices_str)
    /\ fees_pct' = RDiv(form.fees_percent, Rat(100))
    /\ pc' = "header"
    /\ UNCHANGED <<form, loan_amount, emi_preview, years, yi, si, row,
                   table_rows, df, page, grid, call>>

\* lines 99-110: the header cards
HeaderCards ==
    /\ pc = "header"
    /\ loan_amount' = RMax(RSub(form.purchase_price, down_payment), Zero)
    /\ emi_preview' = IF loan_amount' # Zero
                      THEN monthly_payment(loan_amount', apr, form.term_years)
                      ELSE Zero
    /\ IF emi_preview' = ZeroDivisionError
       THEN /\ pc' = "error"
            /\ page' = page
       ELSE /\ pc' = "results"
            /\ page' = page \o
                  <<Element("metric", "Purchase Price", form.purchase_price),
                    Element("metric", "Down Payment", down_payment),
                    Element("metric", "Loan Amount", loan_amount'),
                    Element("metric", "APR", RMul(apr, Rat(100))),
                    Element("metric", "Monthly Payment", emi_preview')>>
    /\ UNCHANGED <<form, down_payment, dp_pct, apr, resale_prices, fees_pct,
                   years, yi, si, row, table_rows, df, grid, call>>

\* lines 111-113: nothing to show
StopNoPrices ==
    /\ pc = "results"
    /\ resale_prices = <<>>
    /\ page' = Append(page, Element("info", "Add at least one resale price to see results.", Zero))
    /\ pc' = "stopped"
    /\ UNCHANGED <<form, down_payment, dp_pct, apr, resale_prices, fees_pct,
                   loan_amount, emi_preview, years, yi, si, row, table_rows,
                   df, grid, call>>

\* lines 115-119: the first row is opened (years is never empty)
StartRows ==
    /\ pc = "results"
    /\ resale_prices # <<>>
    /\ years' = YearList(form.years_max)
    /\ table_rows' = <<>>
    /\ yi' = 1
    /\ row' = <<[key |-> YearKey, value |-> Rat(years'[1])]>>
    /\ si' = 1
    /\ pc' = "cell"
    /\ UNCHANGED <<form, down_payment, dp_pct, apr, resale_prices, fees_pct,
                   loan_amount, emi_preview, df, page, grid, call>>

\* lines 119-127: one pass of the inner loop
Cell ==
    /\ pc = "cell"
    /\ si <= Len(resale_prices)
    /\ LET y == years[yi]
           sp == resale_prices[si]
           e == equity_above_down_payment(
                    form.purchase_price, down_payment, apr, form.term_years,
                    sp, y, fees_pct, form.fees_flat,
                    form.service_charge_per_year)
       IN  /\ row' = DictSet(row, SaleKey(sp), Round(e.above_dp, form.dec))
           /\ grid' = Append(grid, [year |-> y, pos |-> si, sale_price |-> sp,
                                    out |-> e])
    /\ si' = si + 1
    /\ UNCHANGED <<form, pc, down_payment, dp_pct, apr, resale_prices, fees_pct,
                   loan_amount, emi_preview, years, yi, table_rows, df, page,
                   call>>

\* lines 128, 117-119: the row is appended and the next one opened, or the
\* outer loop ends
EndRow ==
    /\ pc = "cell"
    /\ si > Len(resale_prices)
    /\ table_rows' = Append(table_rows, row)
    /\ IF yi < Len(years)
       THEN /\ yi' = yi + 1
            /\ row' = <<[key |-> YearKey, value |-> Rat(years[yi'])]>>
            /\ si' = 1
            /\ pc' = pc
       ELSE /\ pc' = "frame"
            /\ UNCHANGED <<yi, row, si>>
    /\ UNCHANGED <<form, down_payment, dp_pct, apr, resale_prices, fees_pct,
                   loan_amount, emi_preview, years, df, page, grid, call>>

\* lines 130-133: the table
ShowTable ==
    /\ pc = "frame"
    /\ df' = DataFrame(table_rows)
    /\ page' = Append(page, Element("dataframe", "", Zero))
    /\ pc' = "chart"
    /\ UNCHANGED <<form, down_payment, dp_pct, apr, resale_prices, fees_pct,
                   loan_amount, emi_preview, years, yi, si, row, table_rows,
                   grid, call>>

\* lines 135-138: the chart
ShowChart ==
    /\ pc = "chart"
    /\ page' = Append(page, Element("line_chart", "", Zero))
    /\ pc' = "download"
    /\ UNCHANGED <<form, down_payment, dp_pct, apr, resale_prices, fees_pct,
                   loan_amount, emi_preview, years, yi, si, row, table_rows,
                   df, grid, call>>

\* lines 140-144: the CSV download
Download ==
    /\ pc = "download"
    /\ page' = Append(page, Element("download_button", "mortgage_outcomes.csv", Zero))
    /\ pc' = "done"
    /\ UNCHANGED <<form, down_payment, dp_pct, apr, resale_prices, fees_pct,
                   loan_amount, emi_preview, years, yi, si, row, table_rows,
                   df, grid, call>>

Next ==
    \/ Sidebar
    \/ HeaderCards
    \/ StopNoPrices
    \/ StartRows
    \/ Cell
    \/ EndRow
    \/ ShowTable
    \/ ShowChart
    \/ Download

Spec == Init /\ [][Next]_vars

(* ------------- the core functions called on their own ----------------- *)

MaxTerm == 3

MaxYear == 4

\* principals, also the negative one the form's Amount mode can produce
Principals == {Rat(0 - 1), Rat(0), Rat(1), Rat(3)}

\* annual rates as fractions: 0, 600%, 1200%, 2400% (1 + apr/12 = 1, 3/2, 2, 3)
Aprs == {Rat(0), Rat(6), Rat(12), Rat(24)}

\* the compounding periods whose powers the model's integers can hold
Fits(rate, n_years) ==
    \/ rate = Zero
    \/ rate = Rat(12) /\ n_years <= 2
    \/ n_years <= 1

Prices == {Rat(0), Rat(1), Norm(5, 4), Rat(2)}

FeeFractions == {Rat(0), Norm(1, 25), Rat(1), Rat(2)}

Amounts == {Rat(0), Rat(1)}

MonthlyPaymentCalls ==
    [fn : {"monthly_payment"}, principal : Principals, apr : Aprs,
     years : 0..MaxTerm]

RemainingBalanceCalls ==
    [fn : {"remaining_balance"}, principal : Principals, apr : Aprs,
     years_total : 1..MaxTerm, years_paid : 0..MaxYear]

EquityCalls ==
    [fn : {"equity_above_down_payment"}, purchase_price : {Rat(1), Rat(2)},
     down_payment_amount : {Rat(0), Rat(1), Rat(2)}, apr : Aprs,
     term_years : 1..MaxTerm, sale_price : Prices, year : 1..MaxYear,
     fees_pct : FeeFractions, fees_flat : Amounts,
     service_charge_per_year : Amounts]

CallFits(c) ==
    CASE c.fn = "monthly_payment" -> Fits(c.apr, c.years)
      [] c.fn = "remaining_balance" ->
            Fits(c.apr, c.years_total) /\ Fits(c.apr, c.years_paid)
      [] OTHER -> Fits(c.apr, c.term_years) /\ Fits(c.apr, c.year)

InitFn ==
    /\ \E c \in MonthlyPaymentCalls \cup RemainingBalanceCalls \cup EquityCalls :
          /\ CallFits(c)
          /\ call = [args |-> c, returned |-> FALSE, result |-> Zero]
    /\ form = [dp_mode |-> "none"]
    /\ pc = "off"
    /\ down_payment = Zero /\ dp_pct = Zero /\ apr = Zero
    /\ resale_prices = <<>> /\ fees_pct = Zero
    /\ loan_amount = Zero /\ emi_preview = Zero
    /\ years = <<>> /\ yi = 0 /\ si = 0
    /\ row = <<>> /\ table_rows = <<>> /\ df = NoFrame
    /\ page = <<>> /\ grid = <<>>

ApplyMonthlyPayment ==
    /\ ~call.returned
    /\ call.args.fn = "monthly_payment"
    /\ call' = [call EXCEPT !.returned = TRUE,
                   !.result = monthly_payment(call.args.principal, call.args.apr,
                                              call.args.years)]
    /\ UNCHANGED uiVars

ApplyRemainingBalance ==
    /\ ~call.returned
    /\ call.args.fn = "remaining_balance"
    /\ call' = [call EXCEPT !.returned = TRUE,
                   !.result = remaining_balance(call.args.principal, call.args.apr,
                                                call.args.years_total,
                                                call.args.years_paid)]
    /\ UNCHANGED uiVars

ApplyEquity ==
    /\ ~call.returned
    /\ call.args.fn = "equity_above_down_payment"
    /\ call' = [call EXCEPT !.returned = TRUE,
                   !.result = equity_above_down_payment(
                                  call.args.purchase_price,
                                  call.args.down_payment_amount, call.args.apr,
                                  call.args.term_years, call.args.sale_price,
                                  call.args.year, call.args.fees_pct,
                                  call.args.fees_flat,
                                  call.args.service_charge_per_year)]
    /\ UNCHANGED uiVars

NextFn == ApplyMonthlyPayment \/ ApplyRemainingBalance \/ ApplyEquity

SpecFn == InitFn /\ [][NextFn]_vars

Returned(f) == call.returned /\ call.args.fn = f

(* --------------------- properties of the core math -------------------- *)

\* the balances after 0, 1, ..., k monthly steps
\* balance := balance * (1 + r) - payment, starting at principal
RECURSIVE Schedule(_, _, _, _)
Schedule(principal, r, payment, k) ==
    IF k = 0 THEN <<principal>>
    ELSE LET before == Schedule(principal, r, payment, k - 1)
         IN  Append(before, RSub(RMul(before[k], RAdd(One, r)), payment))

\* C2: for principal >= 0 and years_paid in 0..years_total, remaining_balance
\* is the balance left after 12 * years_paid monthly steps of interest and
\* monthly_payment; it is the principal at 0 years and 0 at the full term.
C2_BalanceIsAmortization ==
    (/\ Returned("remaining_balance")
     /\ RLe(Zero, call.args.principal)
     /\ call.args.years_paid <= call.args.years_total)
    => /\ call.result =
            Schedule(call.args.principal,
                     RDiv(call.args.apr, Rat(12)),
                     monthly_payment(call.args.principal, call.args.apr,
                                     call.args.years_total),
                     12 * call.args.years_paid)[12 * call.args.years_paid + 1]
       /\ call.args.years_paid = 0 => call.result = call.args.principal
       /\ call.args.years_paid = call.args.years_total => call.result = Zero

C2_Witness ==
    /\ Returned("remaining_balance")
    /\ call.args.principal = Rat(3)
    /\ call.args.apr = Rat(12)
    /\ call.args.years_total = 2
    /\ call.args.years_paid = 1
    /\ RLt(Zero, call.result)
    /\ RLt(call.result, call.args.principal)

EquityAt(sale_price) ==
    equity_above_down_payment(
        call.args.purchase_price, call.args.down_payment_amount, call.args.apr,
        call.args.term_years, sale_price, call.args.year, call.args.fees_pct,
        call.args.fees_flat, call.args.service_charge_per_year).above_dp

\* C3 as stated: for any fees_pct >= 0 the equity is non-decreasing in the
\* sale price.
C3_MonotoneAnyFee ==
    Returned("equity_above_down_payment")
    => \A sp2 \in Prices :
         RLe(call.args.sale_price, sp2)
         => RLe(call.result.above_dp, EquityAt(sp2))

\* C3 amended: for 0 <= fees_pct <= 1 the equity is non-decreasing in the
\* sale price, everything else held fixed.
C3_MonotoneFeeAtMostOne ==
    (/\ Returned("equity_above_down_payment")
     /\ RLe(call.args.fees_pct, One))
    => \A sp2 \in Prices :
         RLe(call.args.sale_price, sp2)
         => RLe(call.result.above_dp, EquityAt(sp2))

C3_Witness ==
    /\ Returned("equity_above_down_payment")
    /\ call.args.fees_pct = Norm(1, 25)
    /\ call.args.sale_price = Rat(1)
    /\ RLt(call.result.above_dp, EquityAt(Rat(2)))

\* C6: past the term (years_paid > years_total, principal > 0) the balance
\* is strictly negative and strictly below the balance of the year before,
\* and the equity computation for such a year subtracts that negative
\* balance in net_after_costs.
C6_ExtrapolatesPastTerm ==
    /\ (/\ Returned("remaining_balance")
        /\ RLt(Zero, call.args.principal)
        /\ call.args.years_paid > call.args.years_total)
       => /\ RLt(call.result, Zero)
          /\ RLt(call.result,
                 remaining_balance(call.args.principal, call.args.apr,
                                   call.args.years_total,
                                   call.args.years_paid - 1))
    /\ (/\ Returned("equity_above_down_payment")
        /\ RLt(call.args.down_payment_amount, call.args.purchase_price)
        /\ call.args.year > call.args.term_years)
       => /\ RLt(call.result.rem, Zero)
          /\ call.result.net_after_costs =
               RSub(RSub(RSub(call.args.sale_price, call.result.rem),
                         RAdd(RMul(call.args.sale_price, call.args.fees_pct),
                              call.args.fees_flat)),
                    RMul(call.args.service_charge_per_year, Rat(call.args.year)))
          /\ RLt(RSub(RSub(call.args.sale_price,
                           RAdd(RMul(call.args.sale_price, call.args.fees_pct),
                                call.args.fees_flat)),
                      RMul(call.args.service_charge_per_year, Rat(call.args.year))),
                 call.result.net_after_costs)

C6_Witness ==
    /\ Returned("remaining_balance")
    /\ call.args.principal = Rat(3)
    /\ call.args.apr = Rat(12)
    /\ call.args.years_total = 1
    /\ call.args.years_paid = 2
    /\ RLt(call.result, Rat(0 - 3))

\* C7: at apr = 0 the monthly payment is principal / (years * 12), a number
\* and not a division by zero, and the balance is
\* principal * (1 - years_paid / years_total), which is principal / years_total
\* less for each further year.
C7_ZeroRateIsLinear ==
    /\ (/\ Returned("monthly_payment")
        /\ call.args.apr = Zero
        /\ RLe(Zero, call.args.principal)
        /\ call.args.years >= 1)
       => /\ call.result # ZeroDivisionError
          /\ call.result = Norm(call.args.principal[1],
                                call.args.principal[2] * call.args.years * 12)
    /\ (/\ Returned("remaining_balance")
        /\ call.args.apr = Zero
        /\ RLe(Zero, call.args.principal))
       => /\ call.result =
               RMul(call.args.principal,
                    RSub(One, Norm(call.args.years_paid, call.args.years_total)))
          /\ RSub(call.result,
                  remaining_balance(call.args.principal, call.args.apr,
                                    call.args.years_total,
                                    call.args.years_paid + 1))
               = RDiv(call.args.principal, Rat(call.args.years_total))

C7_Witness ==
    /\ Returned("remaining_balance")
    /\ call.args.apr = Zero
    /\ call.args.principal = Rat(3)
    /\ call.args.years_total = 3
    /\ call.args.years_paid = 1
    /\ call.result = Rat(2)

\* C8: with down_payment_amount = purchase_price (no loan) the payment and
\* the balance are 0 and the equity is
\* sale_price - (sale_price * fees_pct + fees_flat)
\*            - service_charge_per_year * year - down_payment_amount.
C8_ZeroLoan ==
    (/\ Returned("equity_above_down_payment")
     /\ call.args.down_payment_amount = call.args.purchase_price)
    => /\ call.result.emi = Zero
       /\ call.result.rem = Zero
       /\ call.result.above_dp =
            RSub(RSub(RSub(call.args.sale_price,
                           RAdd(RMul(call.args.sale_price, call.args.fees_pct),
                                call.args.fees_flat)),
                      RMul(call.args.service_charge_per_year, Rat(call.args.year))),
                 call.args.down_payment_amount)

C8_Witness ==
    /\ Returned("equity_above_down_payment")
    /\ call.args.down_payment_amount = call.args.purchase_price
    /\ call.args.apr = Rat(12)
    /\ call.args.year = 2
    /\ call.args.service_charge_per_year = Rat(1)
    /\ call.args.sale_price = Rat(2)
    /\ call.args.fees_pct = Norm(1, 25)

(* ----------------------- properties of a run -------------------------- *)

\* the configuration the projection is given is outside the data model
InvalidConfiguration ==
    \/ RLt(form.purchase_price, Zero)
    \/ RLt(down_payment, Zero)
    \/ RLt(form.purchase_price, down_payment)
    \/ RLt(apr, Zero)
    \/ form.term_years < 1
    \/ form.years_max < 1

Derived == pc \notin {"off", "sidebar"}

\* C1: a run whose configuration is invalid (here: the down payment above the
\* purchase price, the other cases being kept out by the widgets) computes no
\* cell and does not run to its end.
C1_InvalidConfigurationFails ==
    (Derived /\ InvalidConfiguration)
    => /\ grid = <<>>
       /\ table_rows = <<>>
       /\ pc # "done"

\* C4: the loop computes exactly years_max * K cells for K parsed prices, the
\* j-th of them for year (j-1) \div K + 1 and list position (j-1) % K + 1, so
\* years ascend, prices keep the list's order and a repeated price is
\* computed once per occurrence.
C4_OneCellPerYearAndPosition ==
    LET K == Len(resale_prices)
    IN  /\ pc \in {"frame", "chart", "download", "done"}
           => Len(grid) = form.years_max * K
        /\ \A j \in 1..Len(grid) :
             /\ grid[j].year = ((j - 1) \div K) + 1
             /\ grid[j].year <= form.years_max
             /\ grid[j].pos = ((j - 1) % K) + 1
             /\ grid[j].sale_price = resale_prices[grid[j].pos]

C4_Witness ==
    /\ pc = "done"
    /\ form.years_max = 2
    /\ resale_prices = <<Rat(2), Rat(2)>>
    /\ Len(grid) = 4
    /\ grid[3].year = 2 /\ grid[3].pos = 1
    /\ grid[4].year = 2 /\ grid[4].pos = 2

\* the distinct elements of a sequence, in order of first occurrence
RECURSIVE Distinct(_)
Distinct(seq) ==
    IF seq = <<>> THEN <<>>
    ELSE LET front == Distinct(SubSeq(seq, 1, Len(seq) - 1))
             last == seq[Len(seq)]
         IN  IF \E j \in 1..Len(front) : front[j] = last
             THEN front ELSE Append(front, last)

\* C5: the table has one row per year and, after the Year column, one column
\* per distinct sale price in order of first occurrence, each holding the
\* rounded equity of its year and price.
C5_OneColumnPerDistinctPrice ==
    pc \in {"chart", "download", "done"}
    => LET prices == Distinct(resale_prices)
       IN  /\ Len(df.data) = form.years_max
           /\ Len(df.columns) = 1 + Len(prices)
           /\ df.columns[1] = YearKey
           /\ \A r \in 1..Len(df.data) :
                /\ df.data[r][1] = Rat(r)
                /\ \A c \in 1..Len(prices) :
                     /\ df.columns[c + 1] = SaleKey(prices[c])
                     /\ df.data[r][c + 1] =
                          Round(equity_above_down_payment(
                                    form.purchase_price, down_payment, apr,
                                    form.term_years, prices[c], r, fees_pct,
                                    form.fees_flat,
                                    form.service_charge_per_year).above_dp,
                                form.dec)

NoNumberEntered ==
    \A j \in 1..Len(form.resale_prices_str) : form.resale_prices_str[j].kind # "num"

Shown(el) == \E j \in 1..Len(page) : page[j].el = el

\* C9: when no token of the price text is a number the run raises no error
\* and computes nothing: it ends after the header metrics with the note that
\* there is nothing to show, and no row, table, chart or download exists.
C9_EmptyListIsNoError ==
    (pc # "off" /\ NoNumberEntered)
    => /\ pc \in {"sidebar", "header", "results", "stopped"}
       /\ grid = <<>> /\ table_rows = <<>> /\ df = NoFrame
       /\ ~Shown("dataframe") /\ ~Shown("line_chart") /\ ~Shown("download_button")
       /\ pc = "stopped"
          => /\ Len(page) = 6
             /\ \A j \in 1..5 : page[j].el = "metric"
             /\ page[3] = Element("metric", "Loan Amount", loan_amount)
             /\ page[5] = Element("metric", "Monthly Payment", emi_preview)
             /\ page[6].el = "info"

C9_Witness ==
    /\ pc = "stopped"
    /\ Len(form.resale_prices_str) = 2
    /\ form.resale_prices_str[1].kind = "junk"
    /\ form.resale_prices_str[2].kind = "blank"
    /\ Shown("info")
    /\ Shown("metric")

\* C10: the loan and the monthly payment of the header cards are the loan and
\* the monthly payment every cell of the run is computed with, and the
\* monthly payment is the same in all cells.
C10_HeaderMatchesCells ==
    \A j \in 1..Len(grid) :
        /\ grid[j].out.emi = emi_preview
        /\ RSub(form.purchase_price, down_payment) = loan_amount
        /\ \A k \in 1..Len(grid) : grid[k].out.emi = grid[j].out.emi
====
